---------------------------- MODULE Spec2Model ----------------------------
(***************************************************************************)
(* A model of the clangd-backed AST parent resolution of                   *)
(* src/src/clangd/editor-services.ts (later revision, lines 210-539):      *)
(* areEqual, getParentFromAncestor, getParentIfImplicitCast,               *)
(* getParentAstNode, highlightAstNode and highlightAstNodeUnderCursor,     *)
(* together with the module-level lastVersion and the per-document         *)
(* vimState fields currentAstNode and currentParent.                       *)
(*                                                                         *)
(* Every action runs one handler from one await of sendRequest to the      *)
(* next, as the single-threaded JavaScript event loop does.                *)
(***************************************************************************)
EXTENDS Integers, Sequences, FiniteSets, TLC

VARIABLES
    \* ---- the editor and the documents -------------------------------
    open,              \* the documents that are open
    content,           \* content[d]: the document's text and tree (a scenario id)
    version,           \* version[d]: vimState.document.version
    \* ---- program state ----------------------------------------------
    lastVersion,       \* the module-level `let lastVersion = -1`
    currentAstNode,    \* currentAstNode[d]: vimState.currentAstNode
    currentParent,     \* currentParent[d]: vimState.currentParent
    \* ---- one record per invocation of highlightAstNodeUnderCursor -----
    pc,                \* pc[r]: the await the invocation is suspended at
    rdoc,              \* rdoc[r]: the document of the invocation's vimState
    node,              \* node[r]: the `node` argument of getParentAstNode
    currentPosition,   \* currentPosition[r]
    currentLine,       \* currentLine[r]
    currentCharacter,  \* currentCharacter[r]
    resp,              \* resp[r]: the answer of the request in flight
    hung,              \* TRUE once a loop without an await spins forever
    \* ---- history variables (observations, not program state) --------
    leafVer,           \* leafVer[d]: document version currentAstNode[d] was queried at
    parentVer,         \* parentVer[d]: document version currentParent[d] was queried at
    respVer,           \* respVer[r]: document version the request in flight was sent at
    lastQuery,         \* lastQuery[r]: the last request the invocation sent
    recursed,          \* recursed[r]: getParentIfImplicitCast called getParentAstNode
    inflight,          \* inflight[r]: requests of the invocation sent and not yet answered
    lastEvent,         \* the last observable event (highlight / return / message)
    \* ---- inputs and results of the pure functions --------------------
    eqA, eqB, eqPhase, eqAB, eqBA, eqParent,
    \* ---- the earlier revision (lines 1-209) --------------------------
    early              \* one invocation of the earlier highlightAstNode

vars == << open, content, version, lastVersion, currentAstNode, currentParent,
           pc, rdoc, node, currentPosition, currentLine,
           currentCharacter, resp, hung, leafVer, parentVer, respVer,
           lastQuery, recursed, inflight, lastEvent, eqA, eqB, eqPhase, eqAB,
           eqBA, eqParent, early >>

(***************************************************************************)
(* Bounds of the model.                                                    *)
(***************************************************************************)
MaxVersion == 2     \* document versions run 1..MaxVersion
MaxRequests == 2    \* invocations of highlightAstNodeUnderCursor that may overlap
NumDocs == 2        \* documents
MaxCastDepth == 2   \* ImplicitCast nesting of the generated nodes

(***************************************************************************)
(* The tree node model: ASTNode = {kind, range?, children?}.               *)
(***************************************************************************)
Pos(l, c) == [line |-> l, character |-> c]

Rng(sl, sc, el, ec) == [start |-> Pos(sl, sc), end |-> Pos(el, ec)]

\* An absent range (`range` is optional; the whole-document root has none).
NoRange == Rng(-1, -1, -1, -1)

N(k, r, ch) == [kind |-> k, range |-> r, children |-> ch]

\* JavaScript's null / undefined for an ASTNode.
Null == N("null", NoRange, <<>>)

HasRange(n) == n.range # NoRange


(***************************************************************************)
(* Node equality: areEqual (lines 311-321).                                *)
(***************************************************************************)
RECURSIVE areEqual(_, _)

\* A plausible slip: the comparison forgets the ImplicitCast unwrapping of its
\* second argument.
areEqualOneSided(a, b) ==
    \/ /\ a.range.start.line = b.range.start.line
       /\ a.range.start.character = b.range.start.character
       /\ a.range.end.line = b.range.end.line
       /\ a.range.end.character = b.range.end.character
       /\ a.kind = b.kind
    \/ (a.kind = "ImplicitCast" /\ areEqual(a.children[1], b))

areEqual(a, b) ==
    \/ /\ a.range.start.line = b.range.start.line
       /\ a.range.start.character = b.range.start.character
       /\ a.range.end.line = b.range.end.line
       /\ a.range.end.character = b.range.end.character
       /\ a.kind = b.kind
    \/ (a.kind = "ImplicitCast" /\ areEqual(a.children[1], b))
    \/ (b.kind = "ImplicitCast" /\ areEqual(b.children[1], a))

(***************************************************************************)
(* Ancestor search: getParentFromAncestor (lines 335-356).  The loop over  *)
(* potentialAncestor.children is the recursion on the index i.             *)
(***************************************************************************)
RECURSIVE getParentFromAncestor(_, _)
RECURSIVE searchChildren(_, _, _)

\* A plausible slip: a hit in a child's subtree returns the child that was
\* searched instead of the node the search found.
searchChildrenReturnsChild(potentialAncestor, potentialDescendant, i) ==
    IF i > Len(potentialAncestor.children)
    THEN Null
    ELSE LET child == potentialAncestor.children[i]
         IN  IF areEqual(child, potentialDescendant)
             THEN potentialAncestor
             ELSE LET childSearch == getParentFromAncestor(child, potentialDescendant)
                  IN  IF childSearch # Null
                      THEN child
                      ELSE searchChildren(potentialAncestor, potentialDescendant, i + 1)

\* A plausible slip: the direct children are all compared before any child's
\* subtree is searched.
searchChildrenDirectFirst(potentialAncestor, potentialDescendant, i) ==
    IF i > Len(potentialAncestor.children)
    THEN Null
    ELSE IF \E k \in 1..Len(potentialAncestor.children) :
                areEqual(potentialAncestor.children[k], potentialDescendant)
         THEN potentialAncestor
         ELSE LET childSearch ==
                      getParentFromAncestor(potentialAncestor.children[i],
                                            potentialDescendant)
              IN  IF childSearch # Null
                  THEN childSearch
                  ELSE searchChildren(potentialAncestor, potentialDescendant, i + 1)

searchChildren(potentialAncestor, potentialDescendant, i) ==
    IF i > Len(potentialAncestor.children)
    THEN Null
    ELSE LET child == potentialAncestor.children[i]
         IN  IF areEqual(child, potentialDescendant)
             THEN potentialAncestor
             ELSE LET childSearch == getParentFromAncestor(child, potentialDescendant)
                  IN  IF childSearch # Null
                      THEN childSearch
                      ELSE searchChildren(potentialAncestor, potentialDescendant, i + 1)

getParentFromAncestor(potentialAncestor, potentialDescendant) ==
    IF \/ potentialAncestor = Null
       \/ potentialAncestor.children = <<>>
       \/ potentialDescendant = Null
    THEN Null
    ELSE searchChildren(potentialAncestor, potentialDescendant, 1)

(***************************************************************************)
(* Document accessors (vscode.TextDocument / TextLine).  A text is a       *)
(* sequence of lines, a line a sequence of one-character strings; lines    *)
(* and characters are numbered from 0 as in the editor.                    *)
(***************************************************************************)
lineAt(text, l) == text[l + 1]

charAt(lineText, i) ==
    IF 0 <= i /\ i < Len(lineText) THEN lineText[i + 1] ELSE ""

IsWhitespace(c) == c = " " \/ c = "\t"

firstNonWhitespaceCharacterIndex(lineText) ==
    LET S == {i \in 0..(Len(lineText) - 1) : ~IsWhitespace(lineText[i + 1])}
    IN  IF S = {} THEN Len(lineText) ELSE CHOOSE i \in S : \A j \in S : i <= j

isEmptyOrWhitespace(lineText) ==
    firstNonWhitespaceCharacterIndex(lineText) = Len(lineText)

\* The test of lines 430-442 (and 261-272): a blank line, a `//` comment or a
\* preprocessor directive.
IsSkippedLine(lineText) ==
    LET firstNonWhitespaceIndex == firstNonWhitespaceCharacterIndex(lineText)
        firstCharInLine == charAt(lineText, firstNonWhitespaceIndex)
        secondCharInLine ==
            IF firstNonWhitespaceIndex # Len(lineText)
            THEN charAt(lineText, firstNonWhitespaceIndex + 1)
            ELSE ""
    IN  \/ isEmptyOrWhitespace(lineText)
        \/ (firstCharInLine = "/" /\ secondCharInLine = "/")
        \/ firstCharInLine = "#"

\* The test of lines 462-466 (and 273-277).  charAt yields one character of
\* the line, never a line break, so the '\n' and '\r\n' cases never hold.
IsSkippedCharacter(c) == c = " " \/ c = ";" \/ c = "\t"

\* lineText.split(' ').at(1): the text between the first and the second
\* space; <<>> when there is no space (undefined) or the token is empty
\* (''), both falsy.
secondToken(lineText) ==
    LET sp == {i \in 1..Len(lineText) : lineText[i] = " "}
    IN  IF sp = {}
        THEN <<>>
        ELSE LET s1 == CHOOSE i \in sp : \A j \in sp : i <= j
                 rest == {i \in sp : i > s1}
                 s2 == IF rest = {} THEN Len(lineText) + 1
                       ELSE CHOOSE i \in rest : \A j \in rest : i <= j
             IN  SubSeq(lineText, s1 + 1, s2 - 1)

\* lineText.indexOf(token) for a non-empty token: the first occurrence.
indexOf(lineText, token) ==
    LET at == {i \in 0..(Len(lineText) - Len(token)) :
                  SubSeq(lineText, i + 1, i + Len(token)) = token}
    IN  IF at = {} THEN -1 ELSE CHOOSE i \in at : \A j \in at : i <= j

(***************************************************************************)
(* Position arithmetic (the Position extension methods the source calls;   *)
(* their code is not part of the sources at hand).                         *)
(***************************************************************************)
getLeftThroughLineBreaks(text, p) ==
    IF p.character > 0 THEN Pos(p.line, p.character - 1)
    ELSE IF p.line = 0 THEN p
    ELSE Pos(p.line - 1, Len(lineAt(text, p.line - 1)))

getUp(p) == Pos(IF p.line > 0 THEN p.line - 1 ELSE 0, p.character)

getLineEnd(text, p) == Pos(p.line, Len(lineAt(text, p.line)))

PosLE(p, q) == p.line < q.line \/ (p.line = q.line /\ p.character <= q.character)

PosLT(p, q) == p.line < q.line \/ (p.line = q.line /\ p.character < q.character)


(***************************************************************************)
(* The documents of the model: a text and the tree clangd holds for it.    *)
(* All have NumLines lines, so an edit changes a document's text and tree  *)
(* and keeps its line count.                                               *)
(***************************************************************************)
\*  0: v m(){          Function, FunctionProto `v m()`, Compound
\*  1: f(){            For, with a Compound body
\*  2: //c
\*  3:  s;             DeclRef s
\*  4: #d
\*  5:   t;            DeclRef t
\*  6: }
\*  7: }
LoopText ==
    << <<"v", " ", "m", "(", ")", "{">>,
       <<"f", "(", ")", "{">>,
       <<"/", "/", "c">>,
       <<" ", "s", ";">>,
       <<"#", "d">>,
       <<" ", " ", "t", ";">>,
       <<"}">>,
       <<"}">> >>

LoopS == N("DeclRef", Rng(3, 1, 3, 2), <<>>)
LoopT == N("DeclRef", Rng(5, 2, 5, 3), <<>>)
LoopBody == N("Compound", Rng(1, 3, 6, 1), <<LoopS, LoopT>>)
LoopFor == N("For", Rng(1, 0, 6, 1), <<LoopBody>>)
LoopCompound == N("Compound", Rng(0, 5, 7, 1), <<LoopFor>>)
LoopProto == N("FunctionProto", Rng(0, 0, 0, 5), <<>>)
LoopFunction == N("Function", Rng(0, 0, 7, 1), <<LoopProto, LoopCompound>>)
LoopRoot == N("TranslationUnit", NoRange, <<LoopFunction>>)

\*  0: v m(){          Function, FunctionProto, Compound
\*  1: {               a Compound nested in the function's Compound
\*  2:  xocqy;         BinaryOperator(DeclRef x, ImplicitCast `cqy`(DeclRef y))
\*  3: }
\*  4: }
CastText ==
    << <<"v", " ", "m", "(", ")", "{">>,
       <<"{">>,
       <<" ", "x", "o", "c", "q", "y", ";">>,
       <<"}">>,
       <<"}">>,
       <<>>, <<>>, <<>> >>

CastX == N("DeclRef", Rng(2, 1, 2, 2), <<>>)
CastY == N("DeclRef", Rng(2, 5, 2, 6), <<>>)
CastCast == N("ImplicitCast", Rng(2, 3, 2, 6), <<CastY>>)
CastBinary == N("BinaryOperator", Rng(2, 1, 2, 6), <<CastX, CastCast>>)
CastInner == N("Compound", Rng(1, 0, 3, 1), <<CastBinary>>)
CastCompound == N("Compound", Rng(0, 5, 4, 1), <<CastInner>>)
CastProto == N("FunctionProto", Rng(0, 0, 0, 5), <<>>)
CastFunction == N("Function", Rng(0, 0, 4, 1), <<CastProto, CastCompound>>)
CastRoot == N("TranslationUnit", NoRange, <<CastFunction>>)

\*  0: i x;            a global variable on the first line
\*  1: //c
\*  2: i y;            a global variable below a comment
TopText ==
    << <<"i", " ", "x", ";">>,
       <<"/", "/", "c">>,
       <<"i", " ", "y", ";">>,
       <<>>, <<>>, <<>>, <<>>, <<>> >>

TopX == N("Var", Rng(0, 0, 0, 3), <<>>)
TopY == N("Var", Rng(2, 0, 2, 3), <<>>)
TopRoot == N("TranslationUnit", NoRange, <<TopX, TopY>>)

\*  0:  a;             a declaration indented on the first line
\*  1:
\*  2:   b;
IndentText ==
    << <<" ", "a", ";">>,
       <<>>,
       <<" ", " ", "b", ";">>,
       <<>>, <<>>, <<>>, <<>>, <<>> >>

IndentA == N("Var", Rng(0, 1, 0, 2), <<>>)
IndentB == N("Var", Rng(2, 2, 2, 3), <<>>)
IndentRoot == N("TranslationUnit", NoRange, <<IndentA, IndentB>>)

\*  0: #d
\*  1: v m();          Function, FunctionProto `v m()`
\*  2: i z;            a global variable below a prototype
DeclsText ==
    << <<"#", "d">>,
       <<"v", " ", "m", "(", ")", ";">>,
       <<"i", " ", "z", ";">>,
       <<>>, <<>>, <<>>, <<>>, <<>> >>

DeclsProto == N("FunctionProto", Rng(1, 0, 1, 5), <<>>)
DeclsFunction == N("Function", Rng(1, 0, 1, 5), <<DeclsProto>>)
DeclsZ == N("Var", Rng(2, 0, 2, 3), <<>>)
DeclsRoot == N("TranslationUnit", NoRange, <<DeclsFunction, DeclsZ>>)

\*  0: v m(){          Function, FunctionProto, Compound
\*  1:  f(&a);         Call(ImplicitCast(DeclRef f), UnaryOperator(DeclRef a))
\*  2:  b;             DeclRef b
\*  3: }
CallText ==
    << <<"v", " ", "m", "(", ")", "{">>,
       <<" ", "f", "(", "&", "a", ")", ";">>,
       <<" ", "b", ";">>,
       <<"}">>,
       <<>>, <<>>, <<>>, <<>> >>

CallF == N("DeclRef", Rng(1, 1, 1, 2), <<>>)
CallCastF == N("ImplicitCast", Rng(1, 1, 1, 2), <<CallF>>)
CallA == N("DeclRef", Rng(1, 4, 1, 5), <<>>)
CallAddr == N("UnaryOperator", Rng(1, 3, 1, 5), <<CallA>>)
CallCall == N("Call", Rng(1, 1, 1, 6), <<CallCastF, CallAddr>>)
CallB == N("DeclRef", Rng(2, 1, 2, 2), <<>>)
CallCompound == N("Compound", Rng(0, 5, 3, 1), <<CallCall, CallB>>)
CallProto == N("FunctionProto", Rng(0, 0, 0, 5), <<>>)
CallFunction == N("Function", Rng(0, 0, 3, 1), <<CallProto, CallCompound>>)
CallRoot == N("TranslationUnit", NoRange, <<CallFunction>>)

\*  0: A::A(){         CXXConstructor with its qualifier `A::` as a child
\*  1:  N::f;           DeclRef with its qualifier `N::` as a child
\*  2: }
QualText ==
    << <<"A", ":", ":", "A", "(", ")", "{">>,
       <<" ", "N", ":", ":", "f", ";">>,
       <<"}">>,
       <<>>, <<>>, <<>>, <<>>, <<>> >>

QualN == N("NestedNameSpecifier", Rng(1, 1, 1, 4), <<>>)
QualF == N("DeclRef", Rng(1, 1, 1, 5), <<QualN>>)
QualCompound == N("Compound", Rng(0, 6, 2, 1), <<QualF>>)
QualA == N("NestedNameSpecifier", Rng(0, 0, 0, 3), <<>>)
QualCtor == N("CXXConstructor", Rng(0, 0, 2, 1), <<QualA, QualCompound>>)
QualRoot == N("TranslationUnit", NoRange, <<QualCtor>>)

\*  0: #d
\*  1: i x=M;          M is a macro: its literal has no range (ASTNode.range
\*                     is optional, lines 287 and 515)
\*  2: E               E is a macro that expands to nothing: no node covers it
\*  3: i z;
LitText ==
    << <<"#", "d">>,
       <<"i", " ", "x", "=", "M", ";">>,
       <<"E">>,
       <<"i", " ", "z", ";">>,
       <<>>, <<>>, <<>>, <<>> >>

LitM == N("IntegerLiteral", NoRange, <<>>)
LitX == N("Var", Rng(1, 0, 1, 5), <<LitM>>)
LitZ == N("Var", Rng(3, 0, 3, 3), <<>>)
LitRoot == N("TranslationUnit", NoRange, <<LitX, LitZ>>)

\*  0: /**/            a block comment: no node covers it, and the line is
\*                     not one the scan skips (lines 438-442)
\*  1: i z;
NoteText ==
    << <<"/", "*", "*", "/">>,
       <<"i", " ", "z", ";">>,
       <<>>, <<>>, <<>>, <<>>, <<>>, <<>> >>

NoteZ == N("Var", Rng(1, 0, 1, 3), <<>>)
NoteRoot == N("TranslationUnit", NoRange, <<NoteZ>>)

\* `named`: the positions of a declaration's name, where clangd answers with
\* the declaration itself (the function name of an unqualified prototype
\* yields the Function node, lines 402-403 and 521), and the positions
\* where it answers with a node that has no range.
Scenario ==
    [c \in {"Top", "Decls", "Indent", "Loop", "Cast", "Call", "Qual", "Lit",
               "Note"} |->
        CASE c = "Top" ->
               [text |-> TopText, tree |-> TopRoot, named |-> {}]
          [] c = "Decls" ->
               [text |-> DeclsText, tree |-> DeclsRoot,
                named |-> {[at |-> Pos(1, 2), node |-> DeclsFunction]}]
          [] c = "Indent" ->
               [text |-> IndentText, tree |-> IndentRoot, named |-> {}]
          [] c = "Loop" ->
               [text |-> LoopText, tree |-> LoopRoot,
                named |-> {[at |-> Pos(0, 2), node |-> LoopFunction]}]
          [] c = "Cast" ->
               [text |-> CastText, tree |-> CastRoot,
                named |-> {[at |-> Pos(0, 2), node |-> CastFunction]}]
          [] c = "Call" ->
               [text |-> CallText, tree |-> CallRoot,
                named |-> {[at |-> Pos(0, 2), node |-> CallFunction]}]
          [] c = "Qual" ->
               [text |-> QualText, tree |-> QualRoot, named |-> {}]
          [] c = "Lit" ->
               [text |-> LitText, tree |-> LitRoot,
                named |-> {[at |-> Pos(1, 4), node |-> LitM]}]
          [] c = "Note" ->
               [text |-> NoteText, tree |-> NoteRoot, named |-> {}]]

Scenarios == DOMAIN Scenario

\* An edit replaces a document's content by the next one; the edit of the
\* last one puts a function prototype on the line of its declaration.
Edited(c) ==
    CASE c = "Top" -> "Decls"
      [] c = "Decls" -> "Indent"
      [] c = "Indent" -> "Loop"
      [] c = "Loop" -> "Cast"
      [] c = "Cast" -> "Call"
      [] c = "Call" -> "Qual"
      [] c = "Qual" -> "Lit"
      [] c = "Lit" -> "Note"
      [] c = "Note" -> "Decls"

Text(c) == Scenario[c].text

\* The cursor positions of a text: every character, and column 0 of an
\* empty line.
Cursors(c) ==
    UNION {{Pos(l, ch) : ch \in 0..(IF Len(lineAt(Text(c), l)) = 0 THEN 0
                                    ELSE Len(lineAt(Text(c), l)) - 1)} :
           l \in 0..(Len(Text(c)) - 1)}

(***************************************************************************)
(* The point query `textDocument/ast` (ASTRequestType, lines 221-223): the *)
(* deepest node whose range covers the queried character, null when no     *)
(* node does, and the whole-document root for a null range.                *)
(***************************************************************************)
Covers(n, p) ==
    HasRange(n) /\ PosLE(n.range.start, p) /\ PosLT(p, n.range.end)

RECURSIVE Deepest(_, _)
Deepest(n, p) ==
    LET cs == {i \in 1..Len(n.children) : Covers(n.children[i], p)}
    IN  IF cs = {} THEN n
        ELSE Deepest(n.children[CHOOSE i \in cs : \A j \in cs : i <= j], p)

PointQuery(c, p) ==
    LET names == {o \in Scenario[c].named : o.at = p}
        deepest == Deepest(Scenario[c].tree, p)
    IN  IF names # {} THEN (CHOOSE o \in names : TRUE).node
        ELSE IF deepest = Scenario[c].tree THEN Null
        ELSE deepest

RootQuery(c) == Scenario[c].tree

(***************************************************************************)
(* The nodes the pure functions are applied to: every node of the trees    *)
(* above, and leaves of two kinds and ranges under up to MaxCastDepth      *)
(* ImplicitCast wrappers of either range.                                  *)
(***************************************************************************)
RECURSIVE Subtrees(_)
Subtrees(n) ==
    {n} \cup UNION {Subtrees(n.children[i]) : i \in 1..Len(n.children)}

TreeNodes == UNION {Subtrees(Scenario[c].tree) : c \in Scenarios}

CastRanges == {Rng(2, 3, 2, 6), Rng(2, 5, 2, 6)}

RECURSIVE CastNodes(_)
CastNodes(d) ==
    IF d = 0
    THEN {N(k, r, <<>>) : k \in {"DeclRef", "Call"}, r \in CastRanges}
    ELSE CastNodes(d - 1) \cup
         {N("ImplicitCast", r, <<x>>) : r \in CastRanges, x \in CastNodes(d - 1)}

\* A macro expansion: every node spelled by the macro's argument gets the
\* argument's range, so the same DeclRef appears at two depths of one tree.
MacroArg == N("DeclRef", Rng(2, 3, 2, 4), <<>>)
MacroCall == N("Call", Rng(2, 1, 2, 6), <<MacroArg>>)
MacroSum == N("BinaryOperator", Rng(2, 1, 2, 6), <<MacroCall, MacroArg>>)
MacroNodes == {MacroArg, MacroCall, MacroSum}

PureNodes == TreeNodes \cup CastNodes(MaxCastDepth) \cup MacroNodes


(***************************************************************************)
(* getParentAstNode (lines 365-539), cut at its awaits.  Each piece runs   *)
(* from one await to the next and yields an outcome:                       *)
(*   return   the function returns `value`                                 *)
(*   throw    a TypeError rejects the promise (a range that is absent)     *)
(*   hang     a loop without an await never ends                           *)
(*   rootFn, test, rootSkip, cand                                          *)
(*            sendRequest of line 387, 409, 448, 478 is awaited            *)
(***************************************************************************)
Outcome(k, v, h, p, l, c, a) ==
    [kind |-> k, value |-> v, hit |-> h, pos |-> p, line |-> l,
     character |-> c, at |-> a]

NoPos == Pos(-1, -1)

\* Lines 469-471: step left while the position is at the end of its line.
\* NoPos when the loop makes no progress (the start of an empty first line).
RECURSIVE skipLineEnds(_, _)
skipLineEnds(text, p) ==
    IF p.character = Len(lineAt(text, p.line))
    THEN LET q == getLeftThroughLineBreaks(text, p)
         IN  IF q = p THEN NoPos ELSE skipLineEnds(text, q)
    ELSE p

\* Lines 460-475: skip whitespace and semicolons.  The loop's state is
\* (currentPosition, currentLine, currentCharacter); when an iteration leaves
\* it unchanged the loop never ends.
RECURSIVE skipCharacters(_, _, _, _)
skipCharacters(text, pos, line, character) ==
    LET previousCharacter == charAt(lineAt(text, line), character)
    IN  IF IsSkippedCharacter(previousCharacter)
        THEN LET q == skipLineEnds(text, getLeftThroughLineBreaks(text, pos))
             IN  IF q = NoPos \/ (q = pos /\ q = Pos(line, character))
                 THEN Outcome("hang", Null, FALSE, pos, line, character, NoPos)
                 ELSE skipCharacters(text, q, q.line, q.character)
        ELSE Outcome("cand", Null, FALSE, pos, line, character,
                     Pos(line, character))

RECURSIVE skipLines(_, _, _, _)
\* A plausible slip: no fallback at line 0, whose characters are scanned
\* like those of any other line.
skipLinesNoFallback(text, pos, line, character) ==
    IF IsSkippedLine(lineAt(text, line))
    THEN LET up == getLineEnd(text, getUp(pos))
         IN  IF up.line = 0
             THEN skipCharacters(text, up, up.line, up.character)
             ELSE skipLines(text, up, up.line, up.character)
    ELSE skipCharacters(text, pos, line, character)

\* Lines 428-457 followed by 460-483: skip whole lines, then characters,
\* then send the request for the candidate ancestor.
skipLines(text, pos, line, character) ==
    IF IsSkippedLine(lineAt(text, line))
    THEN LET up == getLineEnd(text, getUp(pos))
         IN  IF up.line = 0
             THEN Outcome("rootSkip", Null, FALSE, up, up.line, up.character, NoPos)
             ELSE skipLines(text, up, up.line, up.character)
    ELSE skipCharacters(text, pos, line, character)

\* One pass of `while (parentAstNode === null)` up to its await.
scanLoop(text, pos, line, character) == skipLines(text, pos, line, character)

\* A plausible slip: the cache check is left out.
cacheHitNever(cachedParent, n) == FALSE

\* Lines 373-379: the cache check.
cacheHit(cachedParent, n) ==
    /\ cachedParent # Null
    /\ cachedParent.children # <<>>
    /\ \E i \in 1..Len(cachedParent.children) :
           areEqual(cachedParent.children[i], n)

\* A plausible slip: no shortcut for a Function node, which is searched for
\* like any other node.
enterGetParentAstNodeScansFunction(text, cachedParent, n) ==
    IF n = Null
    THEN Outcome("return", Null, FALSE, NoPos, -1, -1, NoPos)
    ELSE IF cacheHit(cachedParent, n)
    THEN Outcome("return", cachedParent, TRUE, NoPos, -1, -1, NoPos)
    ELSE IF ~HasRange(n)
    THEN Outcome("throw", Null, FALSE, NoPos, -1, -1, NoPos)
    ELSE LET start == n.range.start
             lineText == lineAt(text, start.line)
             potentialFunctionName == secondToken(lineText)
         IN  IF start.character = 0 /\ potentialFunctionName # <<>>
             THEN Outcome("test", Null, FALSE, start, start.line, start.character,
                          Pos(start.line, indexOf(lineText, potentialFunctionName)))
             ELSE scanLoop(text, getLeftThroughLineBreaks(text, start),
                           start.line, start.character)

\* Lines 369-422: from the call to the first await (or return).
enterGetParentAstNode(text, cachedParent, n) ==
    IF n = Null
    THEN Outcome("return", Null, FALSE, NoPos, -1, -1, NoPos)
    ELSE IF cacheHit(cachedParent, n)
    THEN Outcome("return", cachedParent, TRUE, NoPos, -1, -1, NoPos)
    ELSE IF n.kind = "Function"
    THEN Outcome("rootFn", Null, FALSE, NoPos, -1, -1, NoPos)
    ELSE IF ~HasRange(n)
    THEN Outcome("throw", Null, FALSE, NoPos, -1, -1, NoPos)
    ELSE LET start == n.range.start
             lineText == lineAt(text, start.line)
             potentialFunctionName == secondToken(lineText)
         IN  IF start.character = 0 /\ potentialFunctionName # <<>>
             THEN Outcome("test", Null, FALSE, start, start.line, start.character,
                          Pos(start.line, indexOf(lineText, potentialFunctionName)))
             ELSE scanLoop(text, getLeftThroughLineBreaks(text, start),
                           start.line, start.character)

\* A plausible slip: a Function answer is treated like a Function input,
\* and the whole-document root is requested.
afterTestRoot(text, testAncestor, pos, line, character) ==
    IF testAncestor # Null /\ testAncestor.kind = "Function"
    THEN Outcome("rootFn", Null, FALSE, NoPos, -1, -1, NoPos)
    ELSE scanLoop(text, getLeftThroughLineBreaks(text, pos), line, character)

\* Lines 415-422: after the await of the boundary shortcut's request.
afterTest(text, testAncestor, pos, line, character) ==
    IF testAncestor # Null /\ testAncestor.kind = "Function"
    THEN Outcome("return", testAncestor, FALSE, pos, line, character, NoPos)
    ELSE scanLoop(text, getLeftThroughLineBreaks(text, pos), line, character)

\* Lines 493-501: is the candidate a direct child of the input node?
potentialAncestorIsActuallyChild(n, candidateAncestor) ==
    /\ n.children # <<>>
    /\ \E i \in 1..Len(n.children) : areEqual(n.children[i], candidateAncestor)

\* Lines 506-508.
candidateParentOf(n, candidateAncestor) ==
    IF potentialAncestorIsActuallyChild(n, candidateAncestor)
    THEN Null
    ELSE getParentFromAncestor(candidateAncestor, n)

\* Lines 514-534: the position the scan continues from after a candidate
\* that did not yield the parent.
nextScanPosition(text, candidateAncestor, pos) ==
    LET rewound ==
            IF candidateAncestor = Null THEN pos
            ELSE IF HasRange(candidateAncestor)
            THEN getLeftThroughLineBreaks(text, candidateAncestor.range.start)
            ELSE getLeftThroughLineBreaks(text, pos)
        left == getLeftThroughLineBreaks(text, rewound)
    IN  IF /\ candidateAncestor # Null
           /\ candidateAncestor.kind = "FunctionProto"
           /\ HasRange(candidateAncestor)
           /\ candidateAncestor.range.start.character = 0
        THEN LET startLine == candidateAncestor.range.start.line
                 lineText == lineAt(text, startLine)
                 functionName == secondToken(lineText)
             IN  IF functionName # <<>>
                 THEN Pos(startLine, indexOf(lineText, functionName))
                 ELSE left
        ELSE left

\* A plausible slip: the resolved parent is returned as it is.
getParentIfImplicitCastSkipped(n) == FALSE

\* Lines 358-363: does getParentIfImplicitCast call getParentAstNode?
getParentIfImplicitCast(n) == n # Null /\ n.kind = "ImplicitCast"

\* Lines 485-535: after the await of the candidate's request.  `recurse`
\* marks the call of getParentAstNode by getParentIfImplicitCast, whose
\* result is what the outer call stores and returns (lines 510-511).
afterCandidate(text, cachedParent, n, candidateAncestor, pos) ==
    LET candidateParent ==
            IF candidateAncestor = Null THEN Null
            ELSE candidateParentOf(n, candidateAncestor)
    IN  IF candidateParent # Null
        THEN IF getParentIfImplicitCast(candidateParent)
             THEN [recurse |-> TRUE, node |-> candidateParent,
                   out |-> enterGetParentAstNode(text, cachedParent, candidateParent)]
             ELSE [recurse |-> FALSE, node |-> n,
                   out |-> Outcome("return", candidateParent, FALSE, pos, -1, -1, NoPos)]
        ELSE LET next == nextScanPosition(text, candidateAncestor, pos)
             IN  [recurse |-> FALSE, node |-> n,
                  out |-> scanLoop(text, next, next.line, next.character)]


(***************************************************************************)
(* The state machine.                                                      *)
(***************************************************************************)
Docs == 1..NumDocs

Reqs == 1..MaxRequests

NoQuery == [kind |-> "none", at |-> NoPos, skippedLine |-> FALSE,
            character |-> "", doc |-> 0]

\* What a step did: `entered` is the node getParentAstNode was called with in
\* the step, `value` what it returned, `hit` whether the cache check
\* answered, `highlighted` the range decorated, `leafVer` the version of the
\* leaf at hand and `docVer` the document's version at the step.
Event(t, d, r, ent, v, h, hl, lv, dv, rec) ==
    [type |-> t, doc |-> d, req |-> r, entered |-> ent, value |-> v,
     hit |-> h, highlighted |-> hl, leafVer |-> lv, docVer |-> dv,
     recursed |-> rec]

NoEvent == Event("none", 0, 0, Null, Null, FALSE, NoRange, 0, 0, FALSE)

Quiet == \A r \in Reqs : pc[r] = "idle"

\* The answer clangd gives to the request an outcome sends.
Answer(c, out) ==
    IF out.kind \in {"rootFn", "rootSkip"} THEN RootQuery(c)
    ELSE PointQuery(c, out.at)

\* `sendRequest(ASTRequestType, ...)` (lines 283, 387, 409, 448, 478): one
\* more request of the invocation is out.
sendRequest(outstanding) == outstanding + 1

\* A plausible slip: the promise of a request is not awaited, and the code
\* after it runs while the request is still out.
awaitNothing(outstanding) == outstanding

\* `await` in front of each of them: the code after it runs when the answer
\* has been received.
await(outstanding) == outstanding - 1

\* highlightAstNode (lines 229-244): the range given to setDecorations,
\* NoRange when it returns without decorating.
highlightAstNode(item) == IF item = Null THEN NoRange ELSE item.range

\* The effect of an outcome of getParentAstNode, called (directly or through
\* getParentIfImplicitCast) from line 304 of highlightAstNodeUnderCursor by
\* invocation r on document d; `n` is the node argument, `ast` and `lv` are
\* vimState.currentAstNode and its version after this step's own writes.
Continue(r, d, n, rec, ent, out, ast, lv) ==
    LET text == Text(content[d])
    IN  CASE out.kind = "return" ->
               \* lines 304 and 308: store the parent, then highlight
               /\ currentParent' = [currentParent EXCEPT ![d] = out.value]
               /\ parentVer' = [parentVer EXCEPT ![d] =
                                   IF out.hit THEN @
                                   ELSE IF out.value = Null THEN 0
                                   ELSE respVer[r]]
               /\ pc' = [pc EXCEPT ![r] = "idle"]
               /\ lastEvent' = Event("return", d, r, ent, out.value, out.hit,
                                     highlightAstNode(ast), lv,
                                     version[d], rec)
               /\ node' = [node EXCEPT ![r] = Null]
               /\ currentPosition' = [currentPosition EXCEPT ![r] = NoPos]
               /\ currentLine' = [currentLine EXCEPT ![r] = -1]
               /\ currentCharacter' = [currentCharacter EXCEPT ![r] = -1]
               /\ resp' = [resp EXCEPT ![r] = Null]
               /\ respVer' = [respVer EXCEPT ![r] = 0]
               /\ lastQuery' = [lastQuery EXCEPT ![r] = NoQuery]
               /\ recursed' = [recursed EXCEPT ![r] = FALSE]
               /\ inflight' = [inflight EXCEPT ![r] = await(@)]
               /\ UNCHANGED hung
          [] out.kind = "throw" ->
               /\ pc' = [pc EXCEPT ![r] = "idle"]
               /\ lastEvent' = Event("throw", d, r, ent, Null, FALSE, NoRange, lv,
                                     version[d], rec)
               /\ node' = [node EXCEPT ![r] = Null]
               /\ currentPosition' = [currentPosition EXCEPT ![r] = NoPos]
               /\ currentLine' = [currentLine EXCEPT ![r] = -1]
               /\ currentCharacter' = [currentCharacter EXCEPT ![r] = -1]
               /\ resp' = [resp EXCEPT ![r] = Null]
               /\ respVer' = [respVer EXCEPT ![r] = 0]
               /\ lastQuery' = [lastQuery EXCEPT ![r] = NoQuery]
               /\ recursed' = [recursed EXCEPT ![r] = FALSE]
               /\ inflight' = [inflight EXCEPT ![r] = await(@)]
               /\ UNCHANGED << currentParent, parentVer, hung >>
          [] out.kind = "hang" ->
               /\ hung' = TRUE
               /\ lastEvent' = Event("hang", d, r, ent, Null, FALSE, NoRange, lv,
                                     version[d], rec)
               /\ node' = [node EXCEPT ![r] = n]
               /\ currentPosition' = [currentPosition EXCEPT ![r] = out.pos]
               /\ currentLine' = [currentLine EXCEPT ![r] = out.line]
               /\ currentCharacter' = [currentCharacter EXCEPT ![r] = out.character]
               /\ recursed' = [recursed EXCEPT ![r] = rec]
               /\ inflight' = [inflight EXCEPT ![r] = await(@)]
               /\ UNCHANGED << currentParent, parentVer, pc, resp,
                               respVer, lastQuery >>
          [] OTHER ->
               \* a request is sent and awaited
               /\ pc' = [pc EXCEPT ![r] = out.kind]
               /\ resp' = [resp EXCEPT ![r] = Answer(content[d], out)]
               /\ respVer' = [respVer EXCEPT ![r] = version[d]]
               /\ lastQuery' = [lastQuery EXCEPT ![r] =
                     [kind |-> out.kind, at |-> out.at,
                      skippedLine |-> out.at # NoPos
                                      /\ IsSkippedLine(lineAt(text, out.at.line)),
                      character |-> IF out.at = NoPos THEN ""
                                    ELSE charAt(lineAt(text, out.at.line),
                                                out.at.character),
                      doc |-> d]]
               /\ lastEvent' = Event(IF /\ pc[r] = out.kind
                                         /\ node[r] = n
                                         /\ currentPosition[r] = out.pos
                                         /\ currentLine[r] = out.line
                                         /\ currentCharacter[r] = out.character
                                         /\ resp[r] = Answer(content[d], out)
                                         /\ respVer[r] = version[d]
                                      THEN "repeat" ELSE "send",
                                     d, r, ent, Null, FALSE, NoRange, lv,
                                     version[d], rec)
               /\ node' = [node EXCEPT ![r] = n]
               /\ currentPosition' = [currentPosition EXCEPT ![r] = out.pos]
               /\ currentLine' = [currentLine EXCEPT ![r] = out.line]
               /\ currentCharacter' = [currentCharacter EXCEPT ![r] = out.character]
               /\ recursed' = [recursed EXCEPT ![r] = rec]
               /\ inflight' = [inflight EXCEPT ![r] = sendRequest(await(@))]
               /\ UNCHANGED << currentParent, parentVer, hung >>

\* The user edits document d: its version grows and its text and tree change.
Edit(d) ==
    /\ ~hung
    /\ d \in open
    /\ version[d] < MaxVersion
    /\ version' = [version EXCEPT ![d] = @ + 1]
    /\ content' = [content EXCEPT ![d] = Edited(@)]
    /\ lastEvent' = Event("edit", d, 0, Null, Null, FALSE, NoRange, leafVer[d],
                          version[d] + 1, FALSE)
    /\ UNCHANGED << open, lastVersion, currentAstNode, currentParent,
                    pc, rdoc, node, currentPosition, currentLine,
                    currentCharacter, resp, hung, leafVer, parentVer, respVer,
                    lastQuery, recursed, inflight, eqA, eqB, eqPhase, eqAB,
                    eqBA, eqParent, early >>

\* A plausible slip: only the line is tested, not the character under the
\* cursor.
preFilteredLinesOnly(text, cursorPosition) ==
    IsSkippedLine(lineAt(text, cursorPosition.line))

\* Lines 255-280: the pre-filter of the leaf request.
preFiltered(text, cursorPosition) ==
    LET lineText == lineAt(text, cursorPosition.line)
        charUnderCursor == charAt(lineText, cursorPosition.character)
    IN  IsSkippedLine(lineText) \/ IsSkippedCharacter(charUnderCursor)

\* highlightAstNodeUnderCursor (lines 248-309) up to its first await:
\* invocation r starts on document d, the active editor's document, with
\* the cursor at cursorPosition.
highlightAstNodeUnderCursor(r, d, cursorPosition) ==
    LET changed == lastVersion # version[d]
        ast == IF changed THEN Null ELSE currentAstNode[d]
        par == IF changed THEN Null ELSE currentParent[d]
        lv == IF changed THEN 0 ELSE leafVer[d]
        pv == IF changed THEN 0 ELSE parentVer[d]
        text == Text(content[d])
    IN  /\ lastVersion' = version[d]
        /\ currentAstNode' = [currentAstNode EXCEPT ![d] = ast]
        /\ currentParent' = [currentParent EXCEPT ![d] = par]
        /\ leafVer' = [leafVer EXCEPT ![d] = lv]
        /\ parentVer' = [parentVer EXCEPT ![d] = pv]
        /\ rdoc' = [rdoc EXCEPT ![r] = d]
        /\ IF ast # Null /\ par # Null
           THEN \* line 308: the cached leaf is highlighted again
                /\ lastEvent' = Event("highlight", d, r, Null, Null, FALSE,
                                      highlightAstNode(ast), lv, version[d],
                                      FALSE)
                /\ UNCHANGED << pc, resp, respVer, lastQuery, inflight >>
           ELSE IF preFiltered(text, cursorPosition)
           THEN \* line 279
                /\ lastEvent' = Event("filtered", d, r, Null, Null, FALSE, NoRange,
                                      lv, version[d], FALSE)
                /\ UNCHANGED << pc, resp, respVer, lastQuery, inflight >>
           ELSE \* line 283: the leaf request is sent
                /\ pc' = [pc EXCEPT ![r] = "leaf"]
                /\ resp' = [resp EXCEPT ![r] = PointQuery(content[d], cursorPosition)]
                /\ respVer' = [respVer EXCEPT ![r] = version[d]]
                /\ lastQuery' = [lastQuery EXCEPT ![r] =
                      [kind |-> "leaf", at |-> cursorPosition,
                       skippedLine |-> FALSE,
                       character |-> charAt(lineAt(text, cursorPosition.line),
                                            cursorPosition.character),
                       doc |-> d]]
                /\ lastEvent' = Event("send", d, r, Null, Null, FALSE, NoRange,
                                      lv, version[d], FALSE)
                /\ inflight' = [inflight EXCEPT ![r] = sendRequest(@)]
        /\ UNCHANGED << open, content, version, node, currentPosition,
                        currentLine, currentCharacter, hung, recursed, eqA, eqB,
                        eqPhase, eqAB, eqBA, eqParent, early >>

\* The user invokes the command on the active editor's document d, in the
\* first free slot r; the invocations in flight are on the same document.
Start(r, d) ==
    /\ ~hung
    /\ d \in open
    /\ pc[r] = "idle"
    /\ \A q \in Reqs : q < r => pc[q] # "idle"
    /\ \A q \in Reqs : pc[q] # "idle" => rdoc[q] = d
    /\ \E cursorPosition \in Cursors(content[d]) :
           highlightAstNodeUnderCursor(r, d, cursorPosition)

Frame == UNCHANGED << open, content, version, lastVersion, rdoc, eqA, eqB,
                      eqPhase, eqAB, eqBA, eqParent, early >>

\* Lines 287-305: the leaf request is answered.
ResumeLeaf(r) ==
    /\ ~hung
    /\ pc[r] = "leaf"
    /\ LET d == rdoc[r]
           item == resp[r]
       IN  IF item = Null \/ ~HasRange(item)
           THEN \* lines 288-301: showInformationMessage, return
                /\ pc' = [pc EXCEPT ![r] = "idle"]
                /\ resp' = [resp EXCEPT ![r] = Null]
                /\ respVer' = [respVer EXCEPT ![r] = 0]
                /\ lastQuery' = [lastQuery EXCEPT ![r] = NoQuery]
                /\ lastEvent' = Event("noNode", d, r, Null, Null, FALSE, NoRange,
                                      leafVer[d], version[d], FALSE)
                /\ inflight' = [inflight EXCEPT ![r] = await(@)]
                /\ UNCHANGED << currentAstNode, currentParent, node,
                                currentPosition, currentLine, currentCharacter,
                                hung, leafVer, parentVer, recursed >>
           ELSE \* lines 303-304
                /\ currentAstNode' = [currentAstNode EXCEPT ![d] = item]
                /\ leafVer' = [leafVer EXCEPT ![d] = respVer[r]]
                /\ Continue(r, d, item, FALSE, item,
                            enterGetParentAstNode(Text(content[d]),
                                                  currentParent[d], item),
                            item, respVer[r])
    /\ Frame

\* Lines 387-391: the whole-document request of the Function shortcut is
\* answered.
ResumeRootFn(r) ==
    /\ ~hung
    /\ pc[r] = "rootFn"
    /\ LET d == rdoc[r]
       IN  Continue(r, d, node[r], recursed[r], Null,
                    Outcome("return", resp[r], FALSE, NoPos, -1, -1, NoPos),
                    currentAstNode[d], leafVer[d])
    /\ UNCHANGED << currentAstNode, leafVer >>
    /\ Frame

\* Lines 415-422: the request of the boundary shortcut is answered.
ResumeTest(r) ==
    /\ ~hung
    /\ pc[r] = "test"
    /\ LET d == rdoc[r]
       IN  Continue(r, d, node[r], recursed[r], Null,
                    afterTest(Text(content[d]), resp[r], currentPosition[r],
                              currentLine[r], currentCharacter[r]),
                    currentAstNode[d], leafVer[d])
    /\ UNCHANGED << currentAstNode, leafVer >>
    /\ Frame

\* Lines 448-452: the whole-document request of the line-0 fallback is
\* answered.
ResumeRootSkip(r) ==
    /\ ~hung
    /\ pc[r] = "rootSkip"
    /\ LET d == rdoc[r]
       IN  Continue(r, d, node[r], recursed[r], Null,
                    Outcome("return", resp[r], FALSE, NoPos, -1, -1, NoPos),
                    currentAstNode[d], leafVer[d])
    /\ UNCHANGED << currentAstNode, leafVer >>
    /\ Frame

\* Lines 485-535: the candidate ancestor's request is answered.
ResumeCand(r) ==
    /\ ~hung
    /\ pc[r] = "cand"
    /\ LET d == rdoc[r]
           after == afterCandidate(Text(content[d]), currentParent[d], node[r],
                                   resp[r], currentPosition[r])
       IN  Continue(r, d, after.node, recursed[r] \/ after.recurse,
                    IF after.recurse THEN after.node ELSE Null, after.out,
                    currentAstNode[d], leafVer[d])
    /\ UNCHANGED << currentAstNode, leafVer >>
    /\ Frame

\* The earlier highlightAstNode (lines 31-67) before its first invocation;
\* `ver` observes the document version the invocation started at.
NoEarly ==
    [pc |-> "idle", cursor |-> NoPos, item |-> Null, node |-> Null,
     pending |-> <<>>, pos |-> NoPos, resp |-> Null, outcome |-> "none",
     parent |-> Null, returned |-> Null, highlighted |-> NoRange,
     ver |-> 0]

TypeOK ==
    /\ open \subseteq Docs
    /\ content \in [Docs -> Scenarios]
    /\ version \in [Docs -> 1..MaxVersion]
    /\ lastVersion \in {-1} \cup 1..MaxVersion
    /\ pc \in [Reqs -> {"idle", "leaf", "rootFn", "test", "rootSkip", "cand"}]
    /\ rdoc \in [Reqs -> Docs]
    /\ hung \in BOOLEAN

InitPure ==
    /\ eqA = Null
    /\ eqB = Null
    /\ eqPhase = "off"
    /\ eqAB = FALSE
    /\ eqBA = FALSE
    /\ eqParent = Null

InitEditor ==
    /\ version = [d \in Docs |-> 1]
    /\ lastVersion = -1
    /\ currentAstNode = [d \in Docs |-> Null]
    /\ currentParent = [d \in Docs |-> Null]
    /\ pc = [r \in Reqs |-> "idle"]
    /\ rdoc = [r \in Reqs |-> 1]
    /\ node = [r \in Reqs |-> Null]
    /\ currentPosition = [r \in Reqs |-> NoPos]
    /\ currentLine = [r \in Reqs |-> -1]
    /\ currentCharacter = [r \in Reqs |-> -1]
    /\ resp = [r \in Reqs |-> Null]
    /\ hung = FALSE
    /\ leafVer = [d \in Docs |-> 0]
    /\ parentVer = [d \in Docs |-> 0]
    /\ respVer = [r \in Reqs |-> 0]
    /\ lastQuery = [r \in Reqs |-> NoQuery]
    /\ recursed = [r \in Reqs |-> FALSE]
    /\ inflight = [r \in Reqs |-> 0]
    /\ lastEvent = NoEvent
    /\ early = NoEarly

\* One open document of any content; one invocation at a time, which an
\* edit may overtake.
Init ==
    /\ open = {1}
    /\ \E c \in Scenarios : content = [d \in Docs |-> c]
    /\ InitEditor
    /\ InitPure

Resume(r) ==
    \/ ResumeLeaf(r)
    \/ ResumeRootFn(r)
    \/ ResumeTest(r)
    \/ ResumeRootSkip(r)
    \/ ResumeCand(r)

Next ==
    \/ \E d \in Docs : Edit(d)
    \/ \E d \in Docs : Quiet /\ Start(1, d)
    \/ Resume(1)

Spec == Init /\ [][Next]_vars

\* Every document open; one invocation at a time, and edits between
\* invocations only.
InitDocs ==
    /\ open = Docs
    /\ content = [d \in Docs |-> "Top"]
    /\ InitEditor
    /\ InitPure

NextDocs ==
    \/ \E d \in Docs : Quiet /\ Edit(d)
    \/ \E d \in Docs : Quiet /\ Start(1, d)
    \/ Resume(1)

SpecDocs == InitDocs /\ [][NextDocs]_vars

\* One open document; up to MaxRequests invocations overlap, and edits come
\* at any time.
InitOverlap ==
    /\ open = {1}
    /\ content = [d \in Docs |-> "Top"]
    /\ InitEditor
    /\ InitPure

NextOverlap ==
    \/ \E d \in Docs : Edit(d)
    \/ \E r \in Reqs, d \in Docs : Start(r, d)
    \/ \E r \in Reqs : Resume(r)

SpecOverlap == InitOverlap /\ [][NextOverlap]_vars

\* The pure functions, applied to every pair of nodes.
InitNodes ==
    /\ open = {}
    /\ content = [d \in Docs |-> "Top"]
    /\ InitEditor
    /\ eqA \in PureNodes
    /\ eqB \in PureNodes
    /\ eqPhase = "input"
    /\ eqAB = FALSE
    /\ eqBA = FALSE
    /\ eqParent = Null

Editor == << open, content, version, lastVersion, currentAstNode,
             currentParent, pc, rdoc, node, currentPosition, currentLine,
             currentCharacter, resp, hung, leafVer, parentVer, respVer,
             lastQuery, recursed, inflight, lastEvent, early >>

CallAreEqual ==
    /\ eqPhase = "input"
    /\ eqAB' = areEqual(eqA, eqB)
    /\ eqBA' = areEqual(eqB, eqA)
    /\ eqPhase' = "compared"
    /\ UNCHANGED << eqA, eqB, eqParent, Editor >>

CallGetParentFromAncestor ==
    /\ eqPhase = "compared"
    /\ eqParent' = getParentFromAncestor(eqA, eqB)
    /\ eqPhase' = "searched"
    /\ UNCHANGED << eqA, eqB, eqAB, eqBA, Editor >>

NextNodes == CallAreEqual \/ CallGetParentFromAncestor

SpecNodes == InitNodes /\ [][NextNodes]_vars

(***************************************************************************)
(* The earlier revision of the file (lines 1-209): highlightAstNode with   *)
(* the caller-side promotion, areEqual on ranges only, and                  *)
(* getParentFromAncestor collapsing a Compound parent through a nested     *)
(* call of getParentAstNode.  It keeps no cache and no version.            *)
(***************************************************************************)
\* Lines 69-75.
areEqualEarlier(a, b) ==
    /\ a.range.start.line = b.range.start.line
    /\ a.range.start.character = b.range.start.character
    /\ a.range.end.line = b.range.end.line
    /\ a.range.end.character = b.range.end.character

\* Lines 89-124 up to the direct match of line 99: the node the search finds
\* a child of, before the Compound handling of lines 101-109.
RECURSIVE getParentFromAncestorEarlier(_, _)
RECURSIVE searchChildrenEarlier(_, _, _)
searchChildrenEarlier(potentialAncestor, potentialDescendant, i) ==
    IF i > Len(potentialAncestor.children) THEN Null
    ELSE IF areEqualEarlier(potentialAncestor.children[i], potentialDescendant)
    THEN potentialAncestor
    ELSE LET childSearch ==
                 getParentFromAncestorEarlier(potentialAncestor.children[i],
                                              potentialDescendant)
         IN  IF childSearch # Null THEN childSearch
             ELSE searchChildrenEarlier(potentialAncestor, potentialDescendant,
                                        i + 1)

getParentFromAncestorEarlier(potentialAncestor, potentialDescendant) ==
    IF potentialAncestor = Null \/ potentialDescendant = Null THEN Null
    ELSE searchChildrenEarlier(potentialAncestor, potentialDescendant, 1)

\* Lines 150-153.
IsSkippedCharacterEarlier(c) == c \in {" ", ";"}

\* Lines 148-163: skip blanks and semicolons; NoPos when the loop cannot
\* move (it then never ends).
RECURSIVE skipCharactersEarlier(_, _)
skipCharactersEarlier(text, pos) ==
    IF IsSkippedCharacterEarlier(charAt(lineAt(text, pos.line), pos.character))
    THEN LET q == skipLineEnds(text, getLeftThroughLineBreaks(text, pos))
         IN  IF q = NoPos \/ q = pos THEN NoPos
             ELSE skipCharactersEarlier(text, q)
    ELSE pos

\* Lines 101-110, as the nested calls return: a Compound whose resolved
\* parent is no Compound gives way to that parent.
RECURSIVE Unwind(_, _)
Unwind(pending, value) ==
    IF pending = <<>> THEN value
    ELSE Unwind(SubSeq(pending, 1, Len(pending) - 1),
                IF value.kind # "Compound" THEN value
                ELSE pending[Len(pending)])

\* Lines 127-170: getParentAstNode(n) of the earlier revision up to its
\* request, called with `pending` Compounds waiting for their parent.
getParentAstNodeEarlier(e, text, c, n, pending, from) ==
    LET at == skipCharactersEarlier(text, from)
    IN  IF at = NoPos
        THEN [e EXCEPT !.pc = "hung", !.outcome = "hung", !.node = n,
                       !.pending = pending, !.resp = Null]
        ELSE [e EXCEPT !.pc = "cand",
                       !.outcome = IF e.pc = "cand" /\ e.node = n /\ e.pos = at
                                   THEN "repeat" ELSE "send",
                       !.node = n, !.pending = pending, !.pos = at,
                       !.resp = PointQuery(c, at)]

\* Lines 43-66: the promotion and the highlight.
promote(e, parent) ==
    LET item == IF parent.kind = "Call" \/ parent.kind = "UnaryOperator"
                THEN parent ELSE e.item
    IN  [e EXCEPT !.pc = "idle", !.outcome = "returned", !.parent = parent,
                  !.returned = item, !.highlighted = item.range,
                  !.resp = Null]

EarlyFrame == UNCHANGED << open, content, version, lastVersion, currentAstNode,
                           currentParent, pc, rdoc, node, currentPosition,
                           currentLine, currentCharacter, resp, hung, leafVer,
                           parentVer, respVer, lastQuery, recursed, inflight,
                           lastEvent,
                           eqA, eqB, eqPhase, eqAB, eqBA, eqParent >>

\* Lines 31-38: highlightAstNode is invoked with the cursor at offset.
highlightAstNodeEarlier ==
    /\ early.pc = "idle"
    /\ \E offset \in Cursors(content[1]) :
           early' = [NoEarly EXCEPT !.pc = "leaf", !.cursor = offset,
                                    !.outcome = "send",
                                    !.ver = version[1],
                                    !.resp = PointQuery(content[1], offset)]
    /\ EarlyFrame

\* Lines 39-66: the leaf request is answered.
EarlyResumeLeaf ==
    /\ early.pc = "leaf"
    /\ LET item == early.resp
           e == [early EXCEPT !.item = item]
       IN  early' =
             IF item = Null
             THEN \* line 40
                  [e EXCEPT !.pc = "idle", !.outcome = "message"]
             ELSE IF item.kind = "DeclRef"
             THEN \* line 45, then line 141
                  getParentAstNodeEarlier(e, Text(content[1]), content[1], item,
                      <<>>, getLeftThroughLineBreaks(Text(content[1]),
                                                     item.range.start))
             ELSE \* lines 52-66
                  [e EXCEPT !.pc = "idle", !.outcome = "returned",
                            !.returned = item, !.highlighted = item.range,
                            !.resp = Null]
    /\ EarlyFrame

\* Lines 172-206: the candidate request is answered.
EarlyResumeCand ==
    /\ early.pc = "cand"
    /\ LET candidateAncestor == early.resp
           n == early.node
           text == Text(content[1])
           potentialAncestorIsActuallyChildEarlier ==
               \E i \in 1..Len(n.children) :
                   areEqualEarlier(n.children[i], candidateAncestor)
           candidateParent ==
               IF potentialAncestorIsActuallyChildEarlier THEN Null
               ELSE getParentFromAncestorEarlier(candidateAncestor, n)
       IN  early' =
             IF candidateAncestor = Null
             THEN \* line 172: the assertion fails
                  [early EXCEPT !.pc = "idle", !.outcome = "threw"]
             ELSE IF candidateParent = Null
             THEN \* lines 203-205
                  getParentAstNodeEarlier(early, text, content[1], n,
                      early.pending,
                      getLeftThroughLineBreaks(text,
                                               candidateAncestor.range.start))
             ELSE IF candidateParent.kind = "Compound"
             THEN \* line 103
                  getParentAstNodeEarlier(early, text, content[1],
                      candidateParent, Append(early.pending, candidateParent),
                      getLeftThroughLineBreaks(text,
                                               candidateParent.range.start))
             ELSE \* lines 105-110, 195-198 and 208, then 46-66
                  promote(early, Unwind(early.pending, candidateParent))
    /\ EarlyFrame

NextEarlier ==
    \/ Edit(1)
    \/ highlightAstNodeEarlier
    \/ EarlyResumeLeaf
    \/ EarlyResumeCand

SpecEarlier == Init /\ [][NextEarlier]_vars

(***************************************************************************)
(* The claims.                                                             *)
(***************************************************************************)
\* The node of a document's tree that has n among its children.
DirectParents(c, n) ==
    {p \in Subtrees(Scenario[c].tree) :
        \E i \in 1..Len(p.children) : p.children[i] = n}

\* C1 (as claimed): version invalidation, per open document.  Whenever a
\* step highlights a leaf, the leaf and the cached parent were queried at
\* the document's present version: a pair cached under an earlier version
\* of the document is never highlighted.
VersionInvalidation ==
    lastEvent.highlighted # NoRange =>
        /\ lastEvent.leafVer = lastEvent.docVer
        /\ currentParent[lastEvent.doc] # Null =>
               parentVer[lastEvent.doc] = lastEvent.docVer

\* The cache of document d holds a node queried at another version than the
\* document's present one.
StaleCache(d) ==
    \/ currentAstNode[d] # Null /\ leafVer[d] # version[d]
    \/ currentParent[d] # Null /\ parentVer[d] # version[d]

\* The step is the start of an invocation of highlightAstNodeUnderCursor on
\* document d.
StartStep(d) ==
    /\ lastEvent'.doc = d
    /\ \/ lastEvent'.type \in {"highlight", "filtered"}
       \/ /\ lastEvent'.type = "send"
          /\ \E r \in Reqs : /\ lastEvent'.req = r
                             /\ pc[r] = "idle"
                             /\ pc'[r] = "leaf"

\* C2 (as claimed): self-correction after overlapping requests.  Once every
\* overlapping request has completed, an invocation that starts while the
\* cache holds stale nodes (written by a superseded request) clears both
\* fields and highlights nothing of them: the stale nodes do not survive it.
SelfCorrection ==
    [][\A d \in Docs :
          (/\ StartStep(d)
           /\ StaleCache(d)
           /\ \A r \in Reqs : pc[r] = "idle")
          => (/\ currentAstNode'[d] = Null
              /\ currentParent'[d] = Null
              /\ lastEvent'.highlighted = NoRange)]_vars

\* C3: cache coherence.  A step that calls getParentAstNode with a node that
\* areEqual to a child of the cached parent returns the cached parent in that
\* step, sends no request and leaves currentParent as it was.
CacheCoherence ==
    [][\A d \in Docs :
          LET P == currentParent[d]
              n == lastEvent'.entered
          IN  (/\ lastEvent'.doc = d
               /\ lastEvent'.type \in {"return", "send", "repeat", "throw", "hang"}
               /\ n # Null
               /\ P # Null
               /\ \E i \in 1..Len(P.children) : areEqual(P.children[i], n))
              => (/\ lastEvent'.type = "return"
                  /\ lastEvent'.value = P
                  /\ currentParent'[d] = P)]_vars

\* C3, witness: a call of getParentAstNode was answered by the cache check.
CacheCoherenceWitness ==
    /\ lastEvent.type = "return"
    /\ lastEvent.hit
    /\ lastEvent.value # Null
    /\ lastEvent.value = currentParent[lastEvent.doc]

\* C4 (as claimed): top-of-file termination.  No loop of getParentAstNode
\* runs forever: the character-skipping loops never spin without progress,
\* and the scan loop never sends the request it has just been answered
\* again from the same position.
TopOfFileTermination ==
    /\ ~hung
    /\ lastEvent.type # "repeat"

\* C5 (as claimed): the compound-collapse law.  When getParentAstNode
\* returns for a leaf whose direct parent in the tree is a Compound, it
\* returns the Compound's own parent if that is no Compound, and the
\* Compound if it is.
CompoundCollapse ==
    LET d == lastEvent.doc
        leaf == currentAstNode[d]
    IN  (/\ lastEvent.type = "return"
         /\ ~lastEvent.hit
         /\ leaf # Null
         /\ lastEvent.leafVer = lastEvent.docVer)
        => \A P \in DirectParents(content[d], leaf) :
              P.kind = "Compound" =>
                 \A G \in DirectParents(content[d], P) :
                    lastEvent.value = IF G.kind # "Compound" THEN G ELSE P

\* C6: conversions are never the navigable parent.  No value returned by
\* getParentAstNode, and none stored in currentParent, is an ImplicitCast.
NeverImplicitCast ==
    /\ \A d \in Docs : currentParent[d].kind # "ImplicitCast"
    /\ lastEvent.type = "return" => lastEvent.value.kind # "ImplicitCast"

\* C6, witness: the search found an ImplicitCast parent, and the call of
\* getParentAstNode on it returned that node's own parent.
NeverImplicitCastWitness ==
    /\ lastEvent.type = "return"
    /\ lastEvent.recursed
    /\ lastEvent.leafVer = lastEvent.docVer
    /\ currentAstNode[lastEvent.doc] = CastY
    /\ lastEvent.value = CastBinary
    /\ currentParent[lastEvent.doc] = lastEvent.value

\* C7: equality symmetry.  areEqual(a, b) = areEqual(b, a).
EqualitySymmetry == eqPhase # "input" => eqAB = eqBA

\* C7, witness: two nodes of different kinds and ranges that are equal
\* through two ImplicitCast wrappers, compared both ways.
EqualitySymmetryWitness ==
    /\ eqPhase = "compared"
    /\ eqA.kind = "ImplicitCast"
    /\ eqA.children[1].kind = "ImplicitCast"
    /\ eqB.kind # "ImplicitCast"
    /\ eqA.range # eqB.range
    /\ eqAB
    /\ eqBA

\* C8 (as claimed): conversion transparency.  For an ImplicitCast c with
\* sole child x and any node y, areEqual(c, y) = areEqual(x, y).
ConversionTransparency ==
    (eqPhase # "input" /\ eqA.kind = "ImplicitCast") =>
        eqAB = areEqual(eqA.children[1], eqB)

SkippedLinesNeverQueried ==
    \A r \in Reqs :
        (pc[r] = "cand" /\ leafVer[rdoc[r]] = version[rdoc[r]])
        => ~lastQuery[r].skippedLine

\* C11 (as claimed): caller-side promotion of the earlier revision.  With
\* the document unchanged during the invocation, highlightAstNode returns:
\* null when the request yields no node; the resolved parent, highlighted,
\* when the leaf is a DeclRef and its resolved parent a Call or a
\* UnaryOperator; and the leaf itself, highlighted, in every other case with
\* a node under the cursor.  It does not end otherwise.
CallerPromotion ==
    early.ver = version[1] =>
        /\ early.outcome \in {"none", "send", "message", "returned"}
        /\ early.outcome = "message" =>
               (early.item = Null /\ early.returned = Null)
        /\ early.outcome = "returned" =>
               /\ early.item # Null
               /\ early.highlighted = early.returned.range
               /\ early.returned =
                      IF /\ early.item.kind = "DeclRef"
                         /\ early.parent.kind \in {"Call", "UnaryOperator"}
                      THEN early.parent
                      ELSE early.item

\* The whole-document roots a null-range request can be answered with.
Roots == {RootQuery(c) : c \in Scenarios}

\* C12 (as claimed): the column-0 boundary shortcut.  When the request at
\* the second token of the line of a node that begins at column 0 is
\* answered with a Function, getParentAstNode returns and caches a
\* whole-document root.
ColumnZeroShortcutRoot ==
    [][\A r \in Reqs :
          (/\ pc[r] = "test"
           /\ pc'[r] # "test"
           /\ resp[r].kind = "Function")
          => (/\ pc'[r] \in {"rootFn", "idle"}
              /\ pc'[r] = "idle" =>
                    /\ lastEvent'.type = "return"
                    /\ lastEvent'.value \in Roots
                    /\ currentParent'[rdoc[r]] \in Roots)]_vars

\* C12 (amended): when that request is answered with a Function,
\* getParentAstNode returns and caches that Function itself, in the same
\* step and with no further request.
ColumnZeroShortcut ==
    [][\A r \in Reqs :
          (/\ pc[r] = "test"
           /\ pc'[r] # "test"
           /\ resp[r].kind = "Function")
          => (/\ pc'[r] = "idle"
              /\ lastEvent'.type = "return"
              /\ lastEvent'.req = r
              /\ lastEvent'.value = resp[r]
              /\ currentParent'[rdoc[r]] = resp[r])]_vars

\* C12, witness: the parent of the prototype `v m()` that begins at column
\* 0 was resolved as its Function through the request at the name `m`.
ColumnZeroShortcutWitness ==
    /\ lastEvent.type = "return"
    /\ lastEvent.leafVer = lastEvent.docVer
    /\ currentAstNode[lastEvent.doc] = DeclsProto
    /\ lastEvent.value = DeclsFunction
    /\ currentParent[lastEvent.doc] = DeclsFunction

\* C13: the top-level function shortcut.  When getParentAstNode is called
\* with a Function that the cache check does not answer, it sends one
\* request, with a null range, and no other; when that request is answered
\* it stores the answer in currentParent and returns it.
FunctionShortcut ==
    [][\A r \in Reqs :
          LET d == rdoc[r]
              P == currentParent[d]
          IN  /\ (/\ pc[r] = "leaf"
                  /\ pc'[r] # "leaf"
                  /\ resp[r].kind = "Function"
                  /\ HasRange(resp[r])
                  /\ ~\E i \in 1..Len(P.children) :
                         areEqual(P.children[i], resp[r]))
                 => (/\ pc'[r] = "rootFn"
                     /\ lastQuery'[r].kind = "rootFn"
                     /\ lastQuery'[r].at = NoPos
                     /\ currentParent'[d] = P)
              /\ (pc[r] = "rootFn" /\ pc'[r] # "rootFn")
                 => (/\ pc'[r] = "idle"
                     /\ lastEvent'.type = "return"
                     /\ lastEvent'.req = r
                     /\ lastEvent'.value = resp[r]
                     /\ currentParent'[d] = resp[r])]_vars

\* C13, witness: the parent of a Function was resolved as the
\* whole-document root.
FunctionShortcutWitness ==
    /\ lastEvent.type = "return"
    /\ ~lastEvent.hit
    /\ currentAstNode[lastEvent.doc].kind = "Function"
    /\ lastEvent.value \in Roots
    /\ currentParent[lastEvent.doc] = lastEvent.value

\* The nodes of the subtree rooted at n, in pre-order with the children in
\* source order.
RECURSIVE PreOrder(_)
RECURSIVE PreOrderFrom(_, _)
PreOrder(n) ==
    <<n>> \o PreOrderFrom(n, 1)

PreOrderFrom(n, i) ==
    IF i > Len(n.children)
    THEN <<>>
    ELSE PreOrder(n.children[i]) \o PreOrderFrom(n, i + 1)

\* The parent-child links of the subtree rooted at n, in the pre-order of
\* the child.
RECURSIVE PreOrderLinks(_)
RECURSIVE PreOrderLinksFrom(_, _)
PreOrderLinks(n) ==
    PreOrderLinksFrom(n, 1)

PreOrderLinksFrom(n, i) ==
    IF i > Len(n.children)
    THEN <<>>
    ELSE <<[parent |-> n, child |-> n.children[i]]>>
             \o PreOrderLinks(n.children[i])
             \o PreOrderLinksFrom(n, i + 1)

HasEqualChild(n, descendant) ==
    \E i \in 1..Len(n.children) : areEqual(n.children[i], descendant)

FirstNodeWithEqualChild(ancestor, descendant) ==
    LET order == PreOrder(ancestor)
        hits == {k \in 1..Len(order) : HasEqualChild(order[k], descendant)}
    IN  IF hits = {}
        THEN Null
        ELSE order[CHOOSE k \in hits : \A j \in hits : k <= j]

ParentOfFirstEqualNode(ancestor, descendant) ==
    LET links == PreOrderLinks(ancestor)
        hits == {k \in 1..Len(links) : areEqual(links[k].child, descendant)}
    IN  IF hits = {}
        THEN Null
        ELSE links[CHOOSE k \in hits : \A j \in hits : k <= j].parent

\* C14 (as stated): getParentFromAncestor returns the first node, in
\* pre-order over the subtree of the ancestor, that has a child areEqual to
\* the descendant, and null exactly when no node of the subtree has one.
LeftmostFirstPreOrderNode ==
    eqPhase = "searched" => eqParent = FirstNodeWithEqualChild(eqA, eqB)

\* C14 (amended): getParentFromAncestor returns the parent of the first
\* node, in pre-order over the proper descendants of the ancestor, that is
\* areEqual to the descendant, and null exactly when there is none.
LeftmostFirstPreOrder ==
    eqPhase = "searched" =>
        /\ eqParent = ParentOfFirstEqualNode(eqA, eqB)
        /\ eqParent = Null <=>
               \A k \in 1..Len(PreOrder(eqA)) :
                   ~HasEqualChild(PreOrder(eqA)[k], eqB)

\* C14, witness: in the macro expansion the argument is found under the
\* call, which comes first, although the sum itself has an equal child.
LeftmostFirstPreOrderWitness ==
    /\ eqPhase = "searched"
    /\ eqA = MacroSum
    /\ eqB = MacroArg
    /\ eqParent = MacroCall

\* C15: rewind on miss makes progress.  When the ancestor search misses on
\* a queried candidate that has a range, the next point query of the
\* resolution is at a position strictly before the start of that
\* candidate's range, so the candidate is not queried again.
RewindProgress ==
    [][\A r \in Reqs :
          (/\ pc[r] = "cand"
           /\ resp[r] # Null
           /\ HasRange(resp[r])
           /\ respVer[r] = version[rdoc[r]]
           /\ leafVer[rdoc[r]] = version[rdoc[r]]
           /\ ~potentialAncestorIsActuallyChild(node[r], resp[r])
           /\ getParentFromAncestor(resp[r], node[r]) = Null
           /\ lastEvent'.type \in {"send", "repeat"}
           /\ lastEvent'.req = r
           /\ pc'[r] \in {"cand", "test"})
          => (/\ PosLT(lastQuery'[r].at, resp[r].range.start)
              /\ resp'[r] # resp[r])]_vars

\* Does skipping whole lines, with the scan on line p and the line looked at
\* l (after line 422 the two may differ), arrive at line 0?
RECURSIVE ReachesTop(_, _, _)
ReachesTop(text, p, l) ==
    /\ IsSkippedLine(lineAt(text, l))
    /\ (p <= 1 \/ ReachesTop(text, p - 1, p - 1))

\* C16: the document-boundary fallback.  When the line skipping of a pass
\* of the search loop arrives at line 0, and only then, getParentAstNode
\* sends one request with a null range; when it is answered the answer, which
\* is not null, is stored in currentParent and returned, and nothing is
\* reported as a failure.
BoundaryFallback ==
    [][\A r \in Reqs :
          LET d == rdoc[r]
              text == Text(content[d])
              missed == /\ pc[r] = "cand"
                        /\ pc'[r] \in {"cand", "rootSkip"}
                        /\ lastEvent'.type \in {"send", "repeat"}
                        /\ (resp[r] = Null \/ candidateParentOf(node[r], resp[r]) = Null)
              failed == /\ pc[r] = "test"
                        /\ pc'[r] \in {"cand", "rootSkip"}
                        /\ lastEvent'.type \in {"send", "repeat"}
          IN  /\ missed =>
                    (pc'[r] = "rootSkip" <=>
                        LET next == nextScanPosition(text, resp[r],
                                                     currentPosition[r])
                        IN  ReachesTop(text, next.line, next.line))
              /\ failed =>
                    (pc'[r] = "rootSkip" <=>
                        ReachesTop(text,
                                   getLeftThroughLineBreaks(text,
                                                            currentPosition[r]).line,
                                   currentLine[r]))
              /\ (pc[r] # "rootSkip" /\ pc'[r] = "rootSkip")
                 => (/\ lastQuery'[r].kind = "rootSkip"
                     /\ lastQuery'[r].at = NoPos
                     /\ currentParent'[d] = currentParent[d])
              /\ (pc[r] = "rootSkip" /\ pc'[r] # "rootSkip")
                 => (/\ pc'[r] = "idle"
                     /\ lastEvent'.type = "return"
                     /\ lastEvent'.req = r
                     /\ resp[r] # Null
                     /\ lastEvent'.value = resp[r]
                     /\ currentParent'[d] = resp[r])]_vars

\* C16, witness: the parent of a node that is not a Function was resolved
\* as the whole-document root.
BoundaryFallbackWitness ==
    /\ lastEvent.type = "return"
    /\ ~lastEvent.hit
    /\ lastEvent.leafVer = lastEvent.docVer
    /\ currentAstNode[lastEvent.doc] # Null
    /\ currentAstNode[lastEvent.doc].kind # "Function"
    /\ lastEvent.value \in Roots
    /\ currentParent[lastEvent.doc] = lastEvent.value

\* C17: qualifier exclusion.  A queried candidate that is areEqual to a
\* direct child of the node whose parent is searched for is not passed to
\* the ancestor search and is not returned as the parent: the request
\* neither returns nor recurses in that step, and the scan goes on with a
\* request before the start of the candidate (or with the line-0 fallback).
QualifierExclusion ==
    [][\A r \in Reqs :
          (/\ pc[r] = "cand"
           /\ resp[r] # Null
           /\ HasRange(resp[r])
           /\ respVer[r] = version[rdoc[r]]
           /\ leafVer[rdoc[r]] = version[rdoc[r]]
           /\ \E i \in 1..Len(node[r].children) :
                  areEqual(node[r].children[i], resp[r])
           /\ lastEvent'.type # "edit")
          => (/\ lastEvent'.type = "send"
              /\ lastEvent'.req = r
              /\ node'[r] = node[r]
              /\ recursed'[r] = recursed[r]
              /\ currentParent'[rdoc[r]] = currentParent[rdoc[r]]
              /\ pc'[r] \in {"cand", "rootSkip"}
              /\ pc'[r] = "cand" =>
                     PosLT(lastQuery'[r].at, resp[r].range.start))]_vars

\* C18: malformed nodes abort the request.  When the candidate a request is
\* answered with has no range, or the node whose parent is to be resolved
\* has none, the resolution is aborted and reported: it sends no further
\* request, returns nothing, and leaves the cache as it was.
MalformedNodesAbort ==
    [][\A r \in Reqs :
          (/\ pc[r] = "cand"
           /\ resp[r] # Null
           /\ lastEvent'.type # "edit"
           /\ \/ ~HasRange(resp[r])
              \/ LET parent == candidateParentOf(node[r], resp[r])
                 IN  getParentIfImplicitCast(parent) /\ ~HasRange(parent))
          => (/\ pc'[r] = "idle"
              /\ lastEvent'.type = "throw"
              /\ lastEvent'.req = r
              /\ currentParent'[rdoc[r]] = currentParent[rdoc[r]])]_vars

\* C19: no node at position.  During the parent search a request that is
\* answered with nothing is not an error: the scan moves left and the next
\* request is before the unanswered one (or the line-0 fallback is taken).
\* When the leaf request is answered with nothing, or with a node without a
\* range, the invocation reports it and stops: currentAstNode and
\* currentParent stay as they were, no further request is sent and nothing
\* is highlighted.
NoNodeAtPosition ==
    [][\A r \in Reqs :
          LET d == rdoc[r]
          IN  /\ (/\ pc[r] = "cand"
                  /\ resp[r] = Null
                  /\ respVer[r] = version[d]
                  /\ leafVer[d] = version[d]
                  /\ lastEvent'.type # "edit")
                 => (/\ lastEvent'.type = "send"
                     /\ lastEvent'.req = r
                     /\ node'[r] = node[r]
                     /\ currentParent'[d] = currentParent[d]
                     /\ pc'[r] \in {"cand", "rootSkip"}
                     /\ pc'[r] = "cand" =>
                            PosLT(lastQuery'[r].at, lastQuery[r].at))
              /\ (/\ pc[r] = "leaf"
                  /\ (resp[r] = Null \/ ~HasRange(resp[r]))
                  /\ lastEvent'.type # "edit")
                 => (/\ lastEvent'.type = "noNode"
                     /\ lastEvent'.req = r
                     /\ lastEvent'.highlighted = NoRange
                     /\ pc'[r] = "idle"
                     /\ lastQuery'[r] = NoQuery
                     /\ currentAstNode'[d] = currentAstNode[d]
                     /\ currentParent'[d] = currentParent[d])]_vars

\* C20: one query in flight per request.  An invocation (with the
\* getParentAstNode calls it makes, the recursive ones included) never has
\* more than one request sent and not yet answered, and it sends a request
\* only when none of its own is out.
OneQueryInFlight ==
    \A r \in Reqs :
        /\ inflight[r] \in {0, 1}
        /\ inflight[r] = 1 => pc[r] # "idle"
        /\ pc[r] = "idle" => inflight[r] = 0

\* C20, witness: a request sent by the recursive call of getParentAstNode on
\* an ImplicitCast is the only one out.
OneQueryInFlightWitness ==
    \E r \in Reqs :
        /\ recursed[r]
        /\ pc[r] = "cand"
        /\ node[r].kind = "ImplicitCast"
        /\ inflight[r] = 1

\* C21: the leaf pre-filter.  In a step of highlightAstNodeUnderCursor that
\* finds no leaf or no parent cached after the version check, a request is
\* sent only for a cursor that is not on a blank line, a `//` line, a `#`
\* line, a space, a tab or a `;`; and when none is sent nothing is
\* highlighted and currentAstNode and currentParent stay as the version
\* check left them.
LeafPreFilter ==
    [][\A r \in Reqs, d \in Docs :
          LET changed == lastVersion # version[d]
              ast == IF changed THEN Null ELSE currentAstNode[d]
              par == IF changed THEN Null ELSE currentParent[d]
              lineText == lineAt(Text(content[d]), lastQuery'[r].at.line)
          IN  (/\ pc[r] = "idle"
               /\ rdoc'[r] = d
               /\ lastEvent'.req = r
               /\ lastEvent'.type \in {"send", "filtered", "highlight"}
               /\ (ast = Null \/ par = Null))
              => /\ pc'[r] = "leaf" =>
                       /\ lastEvent'.type = "send"
                       /\ lastQuery'[r].character \notin {" ", "\t", ";", ""}
                       /\ lastQuery'[r].character =
                              charAt(lineText, lastQuery'[r].at.character)
                       /\ ~isEmptyOrWhitespace(lineText)
                       /\ charAt(lineText,
                                 firstNonWhitespaceCharacterIndex(lineText)) # "#"
                       /\ ~(/\ charAt(lineText,
                                      firstNonWhitespaceCharacterIndex(lineText)) = "/"
                            /\ charAt(lineText,
                                      firstNonWhitespaceCharacterIndex(lineText) + 1)
                                   = "/")
                 /\ pc'[r] # "leaf" =>
                       /\ lastEvent'.type = "filtered"
                       /\ lastEvent'.highlighted = NoRange
                       /\ pc'[r] = "idle"
                       /\ lastQuery'[r] = lastQuery[r]
                       /\ inflight'[r] = inflight[r]
                 /\ currentAstNode'[d] = ast
                 /\ currentParent'[d] = par]_vars

\* C21, witness: an invocation with nothing cached returned at the
\* pre-filter.
LeafPreFilterWitness ==
    /\ lastEvent.type = "filtered"
    /\ lastEvent.highlighted = NoRange
    /\ pc[lastEvent.req] = "idle"
    /\ inflight[lastEvent.req] = 0
    /\ currentAstNode[lastEvent.doc] = Null
    /\ currentParent[lastEvent.doc] = Null

\* C22: with the document unchanged since the leaf was resolved, every
\* candidate request of the search loop is for a character that exists on
\* its line (its column is less than the line's length) and that is not a
\* space, a tab or a `;`.
CandidateCharacterValid ==
    \A r \in Reqs :
        (/\ pc[r] = "cand"
         /\ leafVer[rdoc[r]] = version[rdoc[r]]
         /\ respVer[r] = version[rdoc[r]])
        => LET at == lastQuery[r].at
               lineText == lineAt(Text(content[rdoc[r]]), at.line)
           IN  /\ 0 <= at.character
               /\ at.character < Len(lineText)
               /\ charAt(lineText, at.character) \notin {" ", "\t", ";"}

\* C23: the cached parent is the cached leaf's direct parent.  Whenever no
\* invocation is running and currentAstNode and currentParent are both
\* set, currentParent is the whole-document root or has a child areEqual to
\* currentAstNode.
CachedParentIsDirect ==
    \A d \in Docs :
        (/\ Quiet
         /\ currentAstNode[d] # Null
         /\ currentParent[d] # Null)
        => \/ currentParent[d] \in Roots
           \/ \E i \in 1..Len(currentParent[d].children) :
                  areEqual(currentParent[d].children[i], currentAstNode[d])

\* C24: the cached pair is reused.  When an invocation starts on a
\* document whose currentAstNode and currentParent are both set and were
\* resolved at the document's present version, it sends no request and
\* changes neither field, wherever the cursor is: it only highlights the
\* range of the cached leaf again.
CachedPairReused ==
    [][\A r \in Reqs, d \in Docs :
          (/\ pc[r] = "idle"
           /\ rdoc'[r] = d
           /\ lastEvent'.req = r
           /\ lastEvent'.type \in {"send", "filtered", "highlight"}
           /\ currentAstNode[d] # Null
           /\ currentParent[d] # Null
           /\ leafVer[d] = version[d]
           /\ parentVer[d] = version[d])
          => (/\ lastEvent'.type = "highlight"
              /\ lastEvent'.highlighted = currentAstNode[d].range
              /\ pc'[r] = "idle"
              /\ lastQuery'[r] = lastQuery[r]
              /\ inflight'[r] = inflight[r]
              /\ currentAstNode'[d] = currentAstNode[d]
              /\ currentParent'[d] = currentParent[d])]_vars

=============================================================================
